---- MODULE Spec2Model ----
(***************************************************************************)
(* The BalloonGame contract of src/ballongame.sol as a state machine.      *)
(* Each external function is one action; a call whose require fails is a   *)
(* step that records the revert reason and changes nothing else.  Amounts  *)
(* of ETH are counted in units of 0.001 ether, so the entry fee is 1.      *)
(***************************************************************************)
EXTENDS Integers, Sequences, FiniteSets, TLC

\* The addresses that send transactions.
Players == {"alice", "bob"}

\* uint256 public constant ENTRY_FEE = 0.001 ether (unit: 0.001 ether).
ENTRY_FEE == 1

MAX_ROUNDS_oneShort == 5 - 1

MAX_ROUNDS == 5

MIN_PUMPS_BEFORE_POP == 3

\* At most MaxGames calls of startGame succeed in a behaviour of the model.
MaxGames == 2

\* msg.value of a startGame call: below, equal to and above the entry fee.
Values == 0 .. (ENTRY_FEE + 1)

VARIABLES
    games,       \* mapping(address => GameState)
    highScores,  \* mapping(address => uint256)
    players,     \* address[] players
    balance,     \* address(this).balance
    last,        \* the last transaction: function, msg.sender, msg.value, outcome
    emitted,     \* the events the last transaction emitted, in order
    returned,    \* what the last call returned (view functions)
    started,     \* how many startGame calls have succeeded (bounds the model)
    bankedSum,   \* history: per player, the sum of the pendingPoints that the
                 \* collectPoints calls of the current game banked
    banks,       \* history: per player, the successful collectPoints calls of
                 \* the current game
    owed,        \* history: per player, the points earned by pumps and not
                 \* yet added to a totalScore
    finals,      \* history: per player, the final totalScores of the games
                 \* completed so far
    firstStarts, \* history: the callers of the successful startGame calls,
                 \* each at its first such call, in the order of these calls
    gameState,   \* page: useState<GameState | null>
    highScore,   \* page: useState<number>(0)
    transactionHistory, \* page: the types of the recorded transactions,
                 \* newest first
    loading,     \* page: useState(false)
    isPopping,   \* page: useState(false)
    status,      \* page: the status line
    tasks,       \* page: the awaits and timers that are pending
    ran,         \* page: the callback that ran last
    clicks,      \* page: how many times the user has clicked a game button
    currentRound,  \* script: let currentRound = 1
    pumpCount,     \* script: let pumpCount = 0
    roundScore,    \* script: let roundScore = 0
    totalScore,    \* script: let totalScore = 0
    popThreshold,  \* script: let popThreshold = 0
    isPopped,      \* script: let isPopped = false
    pumpBtn,       \* script: the Pump button (its disabled property)
    collectBtn,    \* script: the Collect button (its disabled property)
    timers,        \* script: the setTimeout calls that are pending, oldest
                   \* first, each with the ticks left until it is due
    called,        \* script: the listener or timer callback that ran last
    inputs,        \* script: how many clicks and key presses there have been
    roundStartScore,  \* history: totalScore when the current round began
    thresholdReached, \* history: a pump of the current round has brought
                      \* pumpCount to popThreshold or above
    collects,      \* history: how many times the current round was banked
    gameEnded      \* history: endGame has run and resetGame has not yet

vars == <<games, highScores, players, balance, last, emitted, returned,
          started, bankedSum, banks, owed, finals, firstStarts,
          gameState, highScore, transactionHistory, loading, isPopping, status,
          tasks, ran, clicks,
          currentRound, pumpCount, roundScore, totalScore, popThreshold,
          isPopped, pumpBtn, collectBtn, timers, called, inputs,
          roundStartScore, thresholdReached, collects, gameEnded>>

\* The state of the client-only game (src/newui/script.js).
script == <<currentRound, pumpCount, roundScore, totalScore, popThreshold,
            isPopped, pumpBtn, collectBtn, timers, called, inputs,
            roundStartScore, thresholdReached, collects, gameEnded>>

\* The state of the web page.
page == <<gameState, highScore, transactionHistory, loading, isPopping, status,
          tasks, ran, clicks>>

\* The client-only game when its page is not open: the initial values of
\* the script's variables.
ScriptIdle ==
    /\ currentRound = 1
    /\ pumpCount = 0
    /\ roundScore = 0
    /\ totalScore = 0
    /\ popThreshold = 0
    /\ isPopped = FALSE
    /\ pumpBtn = [disabled |-> FALSE]
    /\ collectBtn = [disabled |-> FALSE]
    /\ timers = <<>>
    /\ called = [fn |-> "none", by |-> "none", round |-> 1]
    /\ inputs = 0
    /\ roundStartScore = 0
    /\ thresholdReached = FALSE
    /\ collects = 0
    /\ gameEnded = FALSE

\* The page after it is loaded and the wallet is connected.
PageLoaded ==
    /\ gameState = <<>>
    /\ highScore = 0
    /\ transactionHistory = <<>>
    /\ loading = FALSE
    /\ isPopping = FALSE
    /\ status = "Connected!"
    /\ tasks = <<>>
    /\ ran = [handler |-> "connectWallet", await |-> "click", result |-> {}]
    /\ clicks = 0

\* The storage of the contract, without the record of the last call.
storage == <<games, highScores, players, balance>>

\* struct GameState; an unset mapping entry reads as all zero.
GameState(r, n, pend, tot, act) ==
    [currentRound |-> r, pumpCount |-> n, pendingPoints |-> pend,
     totalScore |-> tot, isActive |-> act]

ZeroGame == GameState(0, 0, 0, 0, FALSE)

\* Events.  GameStarted's block.timestamp is not modelled.
GameStarted(p) == [event |-> "GameStarted", player |-> p, args |-> <<>>]

BalloonPumped(p, round, pumps, points) ==
    [event |-> "BalloonPumped", player |-> p, args |-> <<round, pumps, points>>]

PointsCollected(p, round, total) ==
    [event |-> "PointsCollected", player |-> p, args |-> <<round, total>>]

BalloonPopped(p, round, lostPoints) ==
    [event |-> "BalloonPopped", player |-> p, args |-> <<round, lostPoints>>]

GameCompleted(p, finalScore) ==
    [event |-> "GameCompleted", player |-> p, args |-> <<finalScore>>]

\* The fields an event carries, by its declaration.
EventFields(e) ==
    CASE e.event = "GameStarted"     -> {"player", "timestamp"}
      [] e.event = "BalloonPumped"   -> {"player", "round", "pumpCount", "points"}
      [] e.event = "PointsCollected" -> {"player", "round", "totalScore"}
      [] e.event = "BalloonPopped"   -> {"player", "round", "lostPoints"}
      [] e.event = "GameCompleted"   -> {"player", "finalScore"}

Call(op, p, v, res) == [op |-> op, caller |-> p, value |-> v, result |-> res]

\* What a call returns: the address it was asked about and the values.
\* A function without return values returns NoReturn.
Return(q, v) == [of |-> q, value |-> v]

NoReturn == Return("none", <<>>)

\* A failed require: the transaction reverts with its reason string.
Revert(op, p, v, reason) ==
    /\ last' = Call(op, p, v, reason)
    /\ emitted' = <<>>
    /\ UNCHANGED storage

\* The contract after its deployment.
Deployed ==
    /\ games = [p \in Players |-> ZeroGame]
    /\ highScores = [p \in Players |-> 0]
    /\ players = <<>>
    /\ balance = 0
    /\ last = Call("constructor", "deployer", 0, "ok")
    /\ emitted = <<>>
    /\ returned = NoReturn
    /\ started = 0
    /\ bankedSum = [p \in Players |-> 0]
    /\ banks = [p \in Players |-> 0]
    /\ owed = [p \in Players |-> 0]
    /\ finals = [p \in Players |-> {}]
    /\ firstStarts = <<>>

Init ==
    /\ Deployed
    /\ PageLoaded
    /\ ScriptIdle

----------------------------------------------------------------------------
\* startGame

startGame_noActiveCheck(p, v) ==
    IF v # ENTRY_FEE
    THEN Revert("startGame", p, v, "Incorrect entry fee")
    ELSE /\ players' = IF games[p].currentRound = 0 THEN Append(players, p) ELSE players
         /\ games' = [games EXCEPT ![p] = GameState(1, 0, 0, 0, TRUE)]
         /\ balance' = balance + v
         /\ emitted' = <<GameStarted(p)>>
         /\ last' = Call("startGame", p, v, "ok")
         /\ UNCHANGED highScores

startGame_feeAtLeast(p, v) ==
    IF games[p].isActive
    THEN Revert("startGame", p, v, "Game already active")
    ELSE IF v < ENTRY_FEE
    THEN Revert("startGame", p, v, "Incorrect entry fee")
    ELSE /\ players' = IF games[p].currentRound = 0 THEN Append(players, p) ELSE players
         /\ games' = [games EXCEPT ![p] = GameState(1, 0, 0, 0, TRUE)]
         /\ balance' = balance + v
         /\ emitted' = <<GameStarted(p)>>
         /\ last' = Call("startGame", p, v, "ok")
         /\ UNCHANGED highScores

startGame_keepsScore(p, v) ==
    IF games[p].isActive
    THEN Revert("startGame", p, v, "Game already active")
    ELSE IF v # ENTRY_FEE
    THEN Revert("startGame", p, v, "Incorrect entry fee")
    ELSE /\ players' = IF games[p].currentRound = 0 THEN Append(players, p) ELSE players
         /\ games' = [games EXCEPT ![p] = [@ EXCEPT !.currentRound = 1, !.isActive = TRUE]]
         /\ balance' = balance + v
         /\ emitted' = <<GameStarted(p)>>
         /\ last' = Call("startGame", p, v, "ok")
         /\ UNCHANGED highScores

\* startGame that clears the games of everybody else.
startGame_resetsAll(p, v) ==
    IF games[p].isActive
    THEN Revert("startGame", p, v, "Game already active")
    ELSE IF v # ENTRY_FEE
    THEN Revert("startGame", p, v, "Incorrect entry fee")
    ELSE /\ players' = IF games[p].currentRound = 0 THEN Append(players, p) ELSE players
         /\ games' = [q \in DOMAIN games |->
                IF q = p THEN GameState(1, 0, 0, 0, TRUE) ELSE ZeroGame]
         /\ balance' = balance + v
         /\ emitted' = <<GameStarted(p)>>
         /\ last' = Call("startGame", p, v, "ok")
         /\ UNCHANGED highScores

\* startGame that registers the caller at every game.
startGame_alwaysAppends(p, v) ==
    IF games[p].isActive
    THEN Revert("startGame", p, v, "Game already active")
    ELSE IF v # ENTRY_FEE
    THEN Revert("startGame", p, v, "Incorrect entry fee")
    ELSE /\ players' = Append(players, p)
         /\ games' = [games EXCEPT ![p] = GameState(1, 0, 0, 0, TRUE)]
         /\ balance' = balance + v
         /\ emitted' = <<GameStarted(p)>>
         /\ last' = Call("startGame", p, v, "ok")
         /\ UNCHANGED highScores

startGame(p, v) ==
    IF games[p].isActive
    THEN Revert("startGame", p, v, "Game already active")
    ELSE IF v # ENTRY_FEE
    THEN Revert("startGame", p, v, "Incorrect entry fee")
    ELSE /\ players' = IF games[p].currentRound = 0 THEN Append(players, p) ELSE players
         /\ games' = [games EXCEPT ![p] = GameState(1, 0, 0, 0, TRUE)]
         /\ balance' = balance + v
         /\ emitted' = <<GameStarted(p)>>
         /\ last' = Call("startGame", p, v, "ok")
         /\ UNCHANGED highScores

----------------------------------------------------------------------------
\* pumpBalloon

earnedPoints_offByOne(pumps) == 10 * (2 ^ pumps)

\* uint256 earnedPoints = 10 * (2 ** (game.pumpCount - 1)), after the increment.
earnedPoints(pumps) == 10 * (2 ^ (pumps - 1))

\* The private helper of the contract; no function calls it.
_checkBalloonPop(pumps) == IF pumps >= 3 THEN TRUE ELSE FALSE

pumpBalloon_capThree(p) ==
    LET game == games[p] IN
    IF ~game.isActive
    THEN Revert("pumpBalloon", p, 0, "No active game")
    ELSE IF ~(game.currentRound <= MAX_ROUNDS)
    THEN Revert("pumpBalloon", p, 0, "Game completed")
    ELSE IF ~(game.pumpCount <= 2)
    THEN Revert("pumpBalloon", p, 0, "Max 2 pumps per round! Collect points to continue.")
    ELSE LET n == game.pumpCount + 1 IN
         /\ games' = [games EXCEPT ![p] =
                [@ EXCEPT !.pumpCount = n,
                          !.pendingPoints = @ + earnedPoints(n)]]
         /\ emitted' = <<BalloonPumped(p, game.currentRound, n, earnedPoints(n))>>
         /\ last' = Call("pumpBalloon", p, 0, "ok")
         /\ UNCHANGED <<highScores, players, balance>>

pumpBalloon_popsAtThree(p) ==
    LET game == games[p] IN
    IF ~game.isActive
    THEN Revert("pumpBalloon", p, 0, "No active game")
    ELSE IF ~(game.currentRound <= MAX_ROUNDS)
    THEN Revert("pumpBalloon", p, 0, "Game completed")
    ELSE LET n == game.pumpCount + 1 IN
         /\ games' = [games EXCEPT ![p] =
                IF _checkBalloonPop(n)
                THEN [@ EXCEPT !.pumpCount = 0, !.pendingPoints = 0]
                ELSE [@ EXCEPT !.pumpCount = n,
                               !.pendingPoints = @ + earnedPoints(n)]]
         /\ emitted' = IF _checkBalloonPop(n)
                       THEN <<BalloonPopped(p, game.currentRound, game.pendingPoints)>>
                       ELSE <<BalloonPumped(p, game.currentRound, n, earnedPoints(n))>>
         /\ last' = Call("pumpBalloon", p, 0, "ok")
         /\ UNCHANGED <<highScores, players, balance>>

pumpBalloon_silentAtCap(p) ==
    LET game == games[p] IN
    IF ~game.isActive
    THEN Revert("pumpBalloon", p, 0, "No active game")
    ELSE IF ~(game.currentRound <= MAX_ROUNDS)
    THEN Revert("pumpBalloon", p, 0, "Game completed")
    ELSE IF ~(game.pumpCount < 2)
    THEN /\ last' = Call("pumpBalloon", p, 0, "ok")
         /\ emitted' = <<>>
         /\ UNCHANGED storage
    ELSE LET n == game.pumpCount + 1 IN
         /\ games' = [games EXCEPT ![p] =
                [@ EXCEPT !.pumpCount = n,
                          !.pendingPoints = @ + earnedPoints(n)]]
         /\ emitted' = <<BalloonPumped(p, game.currentRound, n, earnedPoints(n))>>
         /\ last' = Call("pumpBalloon", p, 0, "ok")
         /\ UNCHANGED <<highScores, players, balance>>

pumpBalloon(p) ==
    LET game == games[p] IN
    IF ~game.isActive
    THEN Revert("pumpBalloon", p, 0, "No active game")
    ELSE IF ~(game.currentRound <= MAX_ROUNDS)
    THEN Revert("pumpBalloon", p, 0, "Game completed")
    ELSE IF ~(game.pumpCount < 2)
    THEN Revert("pumpBalloon", p, 0, "Max 2 pumps per round! Collect points to continue.")
    ELSE LET n == game.pumpCount + 1 IN
         /\ games' = [games EXCEPT ![p] =
                [@ EXCEPT !.pumpCount = n,
                          !.pendingPoints = @ + earnedPoints(n)]]
         /\ emitted' = <<BalloonPumped(p, game.currentRound, n, earnedPoints(n))>>
         /\ last' = Call("pumpBalloon", p, 0, "ok")
         /\ UNCHANGED <<highScores, players, balance>>

----------------------------------------------------------------------------
\* collectPoints and _endGame

_endGame_staysActive(gs, hs, player) ==
    LET game == gs[player] IN
    [games      |-> gs,
     highScores |-> IF game.totalScore > hs[player]
                    THEN [hs EXCEPT ![player] = game.totalScore]
                    ELSE hs,
     events     |-> <<GameCompleted(player, game.totalScore)>>]

_endGame_alwaysOverwrites(gs, hs, player) ==
    LET game == gs[player] IN
    [games      |-> [gs EXCEPT ![player].isActive = FALSE],
     highScores |-> [hs EXCEPT ![player] = game.totalScore],
     events     |-> <<GameCompleted(player, game.totalScore)>>]

\* _endGame(player) applied to the storage (gs, hs): the storage it leaves
\* and the event it emits.
_endGame(gs, hs, player) ==
    LET game == gs[player] IN
    [games      |-> [gs EXCEPT ![player].isActive = FALSE],
     highScores |-> IF game.totalScore > hs[player]
                    THEN [hs EXCEPT ![player] = game.totalScore]
                    ELSE hs,
     events     |-> <<GameCompleted(player, game.totalScore)>>]

collectPoints_noPumpCheck(p) ==
    LET game == games[p] IN
    IF ~game.isActive
    THEN Revert("collectPoints", p, 0, "No active game")
    ELSE LET banked == [games EXCEPT ![p].totalScore = @ + game.pendingPoints]
             collected == PointsCollected(p, game.currentRound, banked[p].totalScore)
         IN
         /\ IF game.currentRound < MAX_ROUNDS
            THEN /\ games' = [banked EXCEPT ![p] =
                        [@ EXCEPT !.currentRound = @ + 1,
                                  !.pumpCount = 0,
                                  !.pendingPoints = 0]]
                 /\ emitted' = <<collected>>
                 /\ UNCHANGED highScores
            ELSE LET end == _endGame(banked, highScores, p) IN
                 /\ games' = end.games
                 /\ highScores' = end.highScores
                 /\ emitted' = <<collected>> \o end.events
         /\ last' = Call("collectPoints", p, 0, "ok")
         /\ UNCHANGED <<players, balance>>

collectPoints_keepsPending(p) ==
    LET game == games[p] IN
    IF ~game.isActive
    THEN Revert("collectPoints", p, 0, "No active game")
    ELSE IF ~(game.pumpCount > 0)
    THEN Revert("collectPoints", p, 0, "Must pump at least once")
    ELSE LET banked == [games EXCEPT ![p].totalScore = @ + game.pendingPoints]
             collected == PointsCollected(p, game.currentRound, banked[p].totalScore)
         IN
         /\ IF game.currentRound < MAX_ROUNDS
            THEN /\ games' = [banked EXCEPT ![p] =
                        [@ EXCEPT !.currentRound = @ + 1,
                                  !.pumpCount = 0]]
                 /\ emitted' = <<collected>>
                 /\ UNCHANGED highScores
            ELSE LET end == _endGame(banked, highScores, p) IN
                 /\ games' = end.games
                 /\ highScores' = end.highScores
                 /\ emitted' = <<collected>> \o end.events
         /\ last' = Call("collectPoints", p, 0, "ok")
         /\ UNCHANGED <<players, balance>>

collectPoints_overwritesScore(p) ==
    LET game == games[p] IN
    IF ~game.isActive
    THEN Revert("collectPoints", p, 0, "No active game")
    ELSE IF ~(game.pumpCount > 0)
    THEN Revert("collectPoints", p, 0, "Must pump at least once")
    ELSE LET banked == [games EXCEPT ![p].totalScore = game.pendingPoints]
             collected == PointsCollected(p, game.currentRound, banked[p].totalScore)
         IN
         /\ IF game.currentRound < MAX_ROUNDS
            THEN /\ games' = [banked EXCEPT ![p] =
                        [@ EXCEPT !.currentRound = @ + 1,
                                  !.pumpCount = 0,
                                  !.pendingPoints = 0]]
                 /\ emitted' = <<collected>>
                 /\ UNCHANGED highScores
            ELSE LET end == _endGame(banked, highScores, p) IN
                 /\ games' = end.games
                 /\ highScores' = end.highScores
                 /\ emitted' = <<collected>> \o end.events
         /\ last' = Call("collectPoints", p, 0, "ok")
         /\ UNCHANGED <<players, balance>>

collectPoints_roundPastMax(p) ==
    LET game == games[p] IN
    IF ~game.isActive
    THEN Revert("collectPoints", p, 0, "No active game")
    ELSE IF ~(game.pumpCount > 0)
    THEN Revert("collectPoints", p, 0, "Must pump at least once")
    ELSE LET banked == [games EXCEPT ![p].totalScore = @ + game.pendingPoints]
             collected == PointsCollected(p, game.currentRound, banked[p].totalScore)
         IN
         /\ IF game.currentRound <= MAX_ROUNDS
            THEN /\ games' = [banked EXCEPT ![p] =
                        [@ EXCEPT !.currentRound = @ + 1,
                                  !.pumpCount = 0,
                                  !.pendingPoints = 0]]
                 /\ emitted' = <<collected>>
                 /\ UNCHANGED highScores
            ELSE LET end == _endGame(banked, highScores, p) IN
                 /\ games' = end.games
                 /\ highScores' = end.highScores
                 /\ emitted' = <<collected>> \o end.events
         /\ last' = Call("collectPoints", p, 0, "ok")
         /\ UNCHANGED <<players, balance>>

collectPoints(p) ==
    LET game == games[p] IN
    IF ~game.isActive
    THEN Revert("collectPoints", p, 0, "No active game")
    ELSE IF ~(game.pumpCount > 0)
    THEN Revert("collectPoints", p, 0, "Must pump at least once")
    ELSE LET banked == [games EXCEPT ![p].totalScore = @ + game.pendingPoints]
             collected == PointsCollected(p, game.currentRound, banked[p].totalScore)
         IN
         /\ IF game.currentRound < MAX_ROUNDS
            THEN /\ games' = [banked EXCEPT ![p] =
                        [@ EXCEPT !.currentRound = @ + 1,
                                  !.pumpCount = 0,
                                  !.pendingPoints = 0]]
                 /\ emitted' = <<collected>>
                 /\ UNCHANGED highScores
            ELSE LET end == _endGame(banked, highScores, p) IN
                 /\ games' = end.games
                 /\ highScores' = end.highScores
                 /\ emitted' = <<collected>> \o end.events
         /\ last' = Call("collectPoints", p, 0, "ok")
         /\ UNCHANGED <<players, balance>>

----------------------------------------------------------------------------
\* withdraw: anyone may take the whole balance.

withdraw(p) ==
    /\ balance' = 0
    /\ emitted' = <<>>
    /\ last' = Call("withdraw", p, 0, "ok")
    /\ UNCHANGED <<games, highScores, players>>

----------------------------------------------------------------------------
\* The view functions.  They are called without a transaction, by anyone.

\* getGameState that requires the player to have started a game.
getGameState_requiresGame(player) ==
    LET game == games[player] IN
    /\ IF game.currentRound = 0
       THEN /\ returned' = NoReturn
            /\ last' = Call("getGameState", "anyone", 0, "No game")
       ELSE /\ returned' = Return(player, <<game.currentRound, game.pumpCount,
                                            game.pendingPoints, game.totalScore,
                                            game.isActive>>)
            /\ last' = Call("getGameState", "anyone", 0, "ok")
    /\ emitted' = <<>>
    /\ UNCHANGED storage

getGameState(player) ==
    LET game == games[player] IN
    /\ returned' = Return(player, <<game.currentRound, game.pumpCount,
                                    game.pendingPoints, game.totalScore,
                                    game.isActive>>)
    /\ last' = Call("getGameState", "anyone", 0, "ok")
    /\ emitted' = <<>>
    /\ UNCHANGED storage

getHighScore(player) ==
    /\ returned' = Return(player, highScores[player])
    /\ last' = Call("getHighScore", "anyone", 0, "ok")
    /\ emitted' = <<>>
    /\ UNCHANGED storage

Swap(s, i, j) == [s EXCEPT ![i] = s[j], ![j] = s[i]]

RECURSIVE SortInner_scoresOnly(_, _, _)
SortInner_scoresOnly(t, i, j) ==
    IF j > Len(t.scores)
    THEN t
    ELSE SortInner_scoresOnly(
            IF t.scores[j] > t.scores[i]
            THEN [players |-> t.players, scores |-> Swap(t.scores, i, j)]
            ELSE t,
            i, j + 1)

\* The inner loop of the sort, for (j = i + 1; j < playerCount; j++), from j
\* on, over t = [players |-> tempPlayers, scores |-> tempScores]; indices
\* count from 1.
RECURSIVE SortInner(_, _, _)
SortInner(t, i, j) ==
    IF j > Len(t.scores)
    THEN t
    ELSE SortInner(
            IF t.scores[j] > t.scores[i]
            THEN [players |-> Swap(t.players, i, j), scores |-> Swap(t.scores, i, j)]
            ELSE t,
            i, j + 1)

\* The outer loop, for (i = 0; i < playerCount; i++), from i on.
RECURSIVE SortOuter(_, _)
SortOuter(t, i) ==
    IF i > Len(t.scores)
    THEN t
    ELSE SortOuter(SortInner(t, i, i + 1), i + 1)

\* What getLeaderboard returns for the list ps and the high scores hs.
Leaderboard(ps, hs) ==
    LET playerCount == Len(ps)
        leaderboardSize == IF playerCount < 10 THEN playerCount ELSE 10
        temp == [players |-> ps,
                 scores  |-> [i \in 1 .. playerCount |-> hs[ps[i]]]]
        sorted == SortOuter(temp, 1)
    IN  [topPlayers |-> SubSeq(sorted.players, 1, leaderboardSize),
         topScores  |-> SubSeq(sorted.scores, 1, leaderboardSize)]

getLeaderboard ==
    /\ returned' = Return("none", Leaderboard(players, highScores))
    /\ last' = Call("getLeaderboard", "anyone", 0, "ok")
    /\ emitted' = <<>>
    /\ UNCHANGED storage

----------------------------------------------------------------------------
\* The history variables record what the step did; they are not contract state.

History ==
    LET did(op, p) == last'.op = op /\ last'.caller = p /\ last'.result = "ok" IN
    /\ started' = IF last'.op = "startGame" /\ last'.result = "ok"
                  THEN started + 1 ELSE started
    /\ bankedSum' = [p \in DOMAIN bankedSum |->
            IF did("startGame", p) THEN 0
            ELSE IF did("collectPoints", p) THEN bankedSum[p] + games[p].pendingPoints
            ELSE bankedSum[p]]
    /\ banks' = [p \in DOMAIN banks |->
            IF did("startGame", p) THEN 0
            ELSE IF did("collectPoints", p) THEN banks[p] + 1
            ELSE banks[p]]
    /\ owed' = [p \in DOMAIN owed |->
            IF did("pumpBalloon", p)
            THEN owed[p] + (games'[p].pendingPoints - games[p].pendingPoints)
            ELSE IF did("collectPoints", p)
            THEN owed[p] - (games'[p].totalScore - games[p].totalScore)
            ELSE owed[p]]
    /\ finals' = [p \in DOMAIN finals |->
            IF games[p].isActive /\ ~games'[p].isActive
            THEN finals[p] \cup {games'[p].totalScore}
            ELSE finals[p]]
    /\ firstStarts' =
            IF /\ last'.op = "startGame" /\ last'.result = "ok"
               /\ \A i \in 1 .. Len(firstStarts) : firstStarts[i] # last'.caller
            THEN Append(firstStarts, last'.caller)
            ELSE firstStarts

Next ==
    \/ \E p \in Players, v \in Values :
            /\ started < MaxGames
            /\ startGame(p, v)
            /\ returned' = NoReturn
            /\ History
            /\ UNCHANGED <<page, script>>
    \/ \E p \in Players : pumpBalloon(p) /\ returned' = NoReturn /\ History /\ UNCHANGED <<page, script>>
    \/ \E p \in Players : collectPoints(p) /\ returned' = NoReturn /\ History /\ UNCHANGED <<page, script>>
    \/ \E p \in Players : withdraw(p) /\ returned' = NoReturn /\ History /\ UNCHANGED <<page, script>>

Spec == Init /\ [][Next]_vars

----------------------------------------------------------------------------
\* getLeaderboard is a function of the storage alone.  SpecLeaderboard applies
\* it to the storages the contract reaches when the addresses 1 .. n start a
\* game one after the other, some of them bank one pump in each of the five
\* rounds (final score 50), and the balance is withdrawn at the end.

\* At most MaxRegistered addresses are in the players list.
MaxRegistered == 11

\* The addresses of SpecLeaderboard; those above n never called the contract.
Addresses == 1 .. (MaxRegistered + 1)

\* What an address has done: started a game and not pumped yet, or banked
\* one pump in each of the five rounds.  The sort compares and swaps fixed
\* pairs of positions, so two score values exercise every swap pattern.
Careers == {"started", "finished50"}

FinalScore(career) == IF career = "finished50" THEN 50 ELSE 0

\* The record the career leaves in games.
CareerGame(career) ==
    IF career = "finished50"
    THEN GameState(MAX_ROUNDS, 1, 10, 50, FALSE)
    ELSE GameState(1, 0, 0, 0, TRUE)

InitLeaderboard ==
    \E n \in 0 .. MaxRegistered :
    \E career \in [1 .. n -> Careers] :
        LET finished(a) == a <= n /\ career[a] # "started" IN
        /\ players = [i \in 1 .. n |-> i]
        /\ games = [a \in Addresses |->
                IF a > n THEN ZeroGame ELSE CareerGame(career[a])]
        /\ highScores = [a \in Addresses |->
                IF a > n THEN 0 ELSE FinalScore(career[a])]
        /\ balance = 0
        /\ last = Call("withdraw", 1, 0, "ok")
        /\ emitted = <<>>
        /\ returned = NoReturn
        /\ started = n
        /\ bankedSum = [a \in Addresses |->
                IF finished(a) THEN FinalScore(career[a]) ELSE 0]
        /\ banks = [a \in Addresses |-> IF finished(a) THEN MAX_ROUNDS ELSE 0]
        /\ owed = [a \in Addresses |-> 0]
        /\ finals = [a \in Addresses |->
                IF finished(a) THEN {FinalScore(career[a])} ELSE {}]
        /\ firstStarts = [i \in 1 .. n |-> i]
        /\ PageLoaded
        /\ ScriptIdle

NextLeaderboard == getLeaderboard /\ History /\ UNCHANGED <<page, script>>

SpecLeaderboard == InitLeaderboard /\ [][NextLeaderboard]_vars

----------------------------------------------------------------------------
\* SpecViews: the transactions of the contract with the three view functions
\* called in between, for any address.

\* At most MaxViewedGames games are started in SpecViews.
MaxViewedGames == 1

NextViews ==
    \/ \E p \in Players, v \in Values :
            /\ started < MaxViewedGames
            /\ startGame(p, v)
            /\ returned' = NoReturn
            /\ History
            /\ UNCHANGED <<page, script>>
    \/ \E p \in Players : pumpBalloon(p) /\ returned' = NoReturn /\ History /\ UNCHANGED <<page, script>>
    \/ \E p \in Players : collectPoints(p) /\ returned' = NoReturn /\ History /\ UNCHANGED <<page, script>>
    \/ \E p \in Players : withdraw(p) /\ returned' = NoReturn /\ History /\ UNCHANGED <<page, script>>
    \/ \E q \in Players : getGameState(q) /\ History /\ UNCHANGED <<page, script>>
    \/ \E q \in Players : getHighScore(q) /\ History /\ UNCHANGED <<page, script>>
    \/ getLeaderboard /\ History /\ UNCHANGED <<page, script>>

SpecViews == Init /\ [][NextViews]_vars

----------------------------------------------------------------------------
\* The web frontend (src/app/page.tsx), connected, with one sub account that
\* plays through it.  A handler runs up to its next await; what it awaits is
\* a task, and the code after the await runs when the task settles, with the
\* gameState and isPopping of the render in which the handler was created.
\* Sounds, animations and balances are not modelled.

\* The sub account of the connected wallet.
SubAccount == "alice"

\* gameState is null or a GameState.
Null == <<>>

Some(g) == <<g>>

\* gameState?.isActive
Active(gs) == gs # Null /\ gs[1].isActive

\* A pending await or timer of a handler, with the gameState, highScore and
\* isPopping of the handler's render.
Task(await, handler) ==
    [await |-> await, handler |-> handler, gameState |-> gameState,
     highScore |-> highScore, isPopping |-> isPopping]

\* The callback that ran last: handler, what it had awaited ("click" for
\* the handler's start), and the message of the error it caught, if any.
NoError == {}

Callback(handler, await, result) ==
    [handler |-> handler, await |-> await, result |-> result]

\* The pop timer: setTimeout(..., 2000) in the catch of pumpBalloon.
PopTimer == "setTimeout 2000 (pop)"

\* The timer of startNewGame that sets the status line after 2 seconds.
StatusTimer == "setTimeout 2000 (status)"

\* Error messages, in lower case, by the phrases they are made of: a
\* reverted transaction reports "execution reverted: <reason>", a request
\* the wallet does not send reports a refusal.
RevertMessage(reason) == {"execution reverted", reason}

WalletRefusal == {"user rejected the request"}

NetworkError == {"failed to fetch"}

\* errorMsg.toLowerCase().includes(needle)
Includes(msg, needle) ==
    \E phrase \in msg :
        \/ phrase = needle
        \/ needle = "user rejected" /\ phrase = "user rejected the request"

\* The reason strings of the contract in lower case.
LowerCase(reason) ==
    CASE reason = "Game already active" -> "game already active"
      [] reason = "Incorrect entry fee" -> "incorrect entry fee"
      [] reason = "No active game" -> "no active game"
      [] reason = "Game completed" -> "game completed"
      [] reason = "Must pump at least once" -> "must pump at least once"
      [] reason = "Max 2 pumps per round! Collect points to continue."
            -> "max 2 pumps per round! collect points to continue."
      [] OTHER -> reason

Remove(s, i) == SubSeq(s, 1, i - 1) \o SubSeq(s, i + 1, Len(s))

\* A step of the page that sends nothing to the contract.
NoCall == UNCHANGED <<games, highScores, players, balance, last, emitted,
                      returned, started, bankedSum, banks, owed, finals,
                      firstStarts>>

\* The user clicks the game buttons at most MaxClicks times.
MaxClicks == 7

\* startNewGame up to its first await; the button shows while no game is
\* active and is disabled while loading.
startNewGame ==
    /\ ~Active(gameState) /\ ~loading
    /\ clicks < MaxClicks
    /\ loading' = TRUE
    /\ status' = "Starting new game..."
    /\ tasks' = Append(tasks, Task("eth_chainId", "startNewGame"))
    /\ ran' = Callback("startNewGame", "click", NoError)
    /\ clicks' = clicks + 1
    /\ UNCHANGED <<transactionHistory, highScore, gameState, isPopping>>
    /\ NoCall

\* The catch and finally of startNewGame.
startNewGame_catch(i, errorMsg) ==
    /\ status' =
            IF Includes(errorMsg, "insufficient funds") THEN "Insufficient funds!"
            ELSE IF Includes(errorMsg, "execution reverted") THEN "Transaction reverted."
            ELSE IF Includes(errorMsg, "user rejected") THEN "Transaction rejected"
            ELSE IF Includes(errorMsg, "game already active")
            THEN "You already have an active game!"
            ELSE "Failed"
    /\ loading' = FALSE
    /\ tasks' = Remove(tasks, i)
    /\ UNCHANGED <<transactionHistory, highScore, gameState, isPopping>>

\* eth_chainId settled: the network check.
startNewGame_chainId(i) ==
    /\ tasks[i].await = "eth_chainId"
    /\ \E chain \in {"base sepolia", "other", "error"} :
        /\ ran' = Callback("startNewGame", "eth_chainId",
                           IF chain = "error" THEN NetworkError ELSE NoError)
        /\ CASE chain = "base sepolia" ->
                    /\ tasks' = [tasks EXCEPT ![i].await = "eth_getCode"]
                    /\ UNCHANGED <<transactionHistory, highScore, gameState, loading, isPopping, status>>
             [] chain = "other" ->
                    /\ status' = "Wrong network!"
                    /\ loading' = FALSE
                    /\ tasks' = Remove(tasks, i)
                    /\ UNCHANGED <<transactionHistory, highScore, gameState, isPopping>>
             [] chain = "error" -> startNewGame_catch(i, NetworkError)
    /\ NoCall

\* eth_getCode settled: the contract must exist.
startNewGame_getCode(i) ==
    /\ tasks[i].await = "eth_getCode"
    /\ \E contractCode \in {"0x6080", "0x", "error"} :
        /\ ran' = Callback("startNewGame", "eth_getCode",
                           IF contractCode = "error" THEN NetworkError ELSE NoError)
        /\ CASE contractCode = "0x6080" ->
                    /\ tasks' = [tasks EXCEPT ![i].await = "eth_call getGameState"]
                    /\ UNCHANGED <<transactionHistory, highScore, gameState, loading, isPopping, status>>
             [] contractCode = "0x" ->
                    /\ status' = "Contract not found"
                    /\ loading' = FALSE
                    /\ tasks' = Remove(tasks, i)
                    /\ UNCHANGED <<transactionHistory, highScore, gameState, isPopping>>
             [] contractCode = "error" -> startNewGame_catch(i, NetworkError)
    /\ NoCall

\* startNewGame that sends the transaction without looking at the game.
startNewGame_checkGame_noCheck(i) ==
    /\ tasks[i].await = "eth_call getGameState"
    /\ getGameState(SubAccount) /\ History
    /\ ran' = Callback("startNewGame", "eth_call getGameState", NoError)
    /\ tasks' = [tasks EXCEPT ![i].await = "wallet_sendCalls"]
    /\ UNCHANGED <<transactionHistory, highScore, gameState, loading, isPopping, status>>

\* eth_call of getGameState settled: an active game is loaded into the
\* page, otherwise (or when the call failed) the transaction is sent.
startNewGame_checkGame(i) ==
    /\ tasks[i].await = "eth_call getGameState"
    /\ \/ /\ getGameState(SubAccount) /\ History
          /\ ran' = Callback("startNewGame", "eth_call getGameState", NoError)
          /\ LET hex == returned'.value
                 isActive == hex[5] = TRUE
             IN  IF isActive
                 THEN /\ status' = "You have an unfinished game!"
                      /\ loading' = FALSE
                      /\ gameState' = Some(GameState(hex[1], hex[2], hex[3], hex[4], TRUE))
                      /\ tasks' = Remove(tasks, i)
                      /\ UNCHANGED <<transactionHistory, highScore, isPopping>>
                 ELSE /\ tasks' = [tasks EXCEPT ![i].await = "wallet_sendCalls"]
                      /\ UNCHANGED <<transactionHistory, highScore, gameState, loading, isPopping, status>>
       \/ /\ NoCall
          /\ ran' = Callback("startNewGame", "eth_call getGameState", NetworkError)
          /\ tasks' = [tasks EXCEPT ![i].await = "wallet_sendCalls"]
          /\ UNCHANGED <<transactionHistory, highScore, gameState, loading, isPopping, status>>

\* wallet_sendCalls of startGame settled.
startNewGame_sent(i) ==
    /\ tasks[i].await = "wallet_sendCalls" /\ tasks[i].handler = "startNewGame"
    /\ \/ /\ startGame(SubAccount, ENTRY_FEE) /\ returned' = NoReturn /\ History
          /\ IF last'.result = "ok"
             THEN /\ ran' = Callback("startNewGame", "wallet_sendCalls", NoError)
                  /\ status' = "Game started!"
                  /\ gameState' = Some(GameState(1, 0, 0, 0, TRUE))
                  /\ loading' = FALSE
                  /\ tasks' = [tasks EXCEPT ![i].await = StatusTimer]
                  /\ transactionHistory' = <<"Start Game">> \o transactionHistory
                  /\ UNCHANGED <<highScore, isPopping>>
             ELSE /\ ran' = Callback("startNewGame", "wallet_sendCalls",
                                     RevertMessage(LowerCase(last'.result)))
                  /\ startNewGame_catch(i, RevertMessage(LowerCase(last'.result)))
       \/ /\ NoCall
          /\ ran' = Callback("startNewGame", "wallet_sendCalls", WalletRefusal)
          /\ startNewGame_catch(i, WalletRefusal)

\* The callback of the status timer.
startNewGame_statusTimer(i) ==
    /\ tasks[i].await = StatusTimer
    /\ status' = "Pump the balloon to earn points!"
    /\ tasks' = Remove(tasks, i)
    /\ ran' = Callback("startNewGame", StatusTimer, NoError)
    /\ UNCHANGED <<transactionHistory, highScore, gameState, loading, isPopping>>
    /\ NoCall

\* pumpBalloon of the page up to its await; the button shows while a game
\* is active and is disabled while loading.
page_pumpBalloon ==
    /\ Active(gameState) /\ ~loading
    /\ clicks < MaxClicks
    /\ loading' = TRUE
    /\ status' = "Pumping..."
    /\ tasks' = Append(tasks, Task("wallet_sendCalls", "pumpBalloon"))
    /\ ran' = Callback("pumpBalloon", "click", NoError)
    /\ clicks' = clicks + 1
    /\ UNCHANGED <<transactionHistory, highScore, gameState, isPopping>>
    /\ NoCall

\* The catch of pumpBalloon and the finally that runs after its return.
pumpBalloon_catch(i, errorMsg) ==
    LET isPoppedError == \/ Includes(errorMsg, "popped")
                         \/ Includes(errorMsg, "balloon popped")
                         \/ Includes(errorMsg, "execution reverted")
                         \/ Includes(errorMsg, "game over")
    IN  IF isPoppedError
        THEN /\ isPopping' = TRUE
             /\ status' = "BALLOON POPPED!"
             /\ tasks' = [tasks EXCEPT ![i].await = PopTimer]
             /\ loading' = IF ~tasks[i].isPopping THEN FALSE ELSE loading
             /\ UNCHANGED <<transactionHistory, highScore, gameState>>
        ELSE /\ status' = "Pump failed"
             /\ loading' = FALSE
             /\ tasks' = Remove(tasks, i)
             /\ UNCHANGED <<transactionHistory, highScore, gameState, isPopping>>

\* wallet_sendCalls of pumpBalloon settled.
pumpBalloon_sent(i) ==
    LET g == tasks[i].gameState[1]
        newPumpCount == g.pumpCount + 1
    IN
    /\ tasks[i].await = "wallet_sendCalls" /\ tasks[i].handler = "pumpBalloon"
    /\ \/ /\ pumpBalloon(SubAccount) /\ returned' = NoReturn /\ History
          /\ IF last'.result = "ok"
             THEN /\ ran' = Callback("pumpBalloon", "wallet_sendCalls", NoError)
                  /\ gameState' = Some([g EXCEPT
                        !.pumpCount = newPumpCount,
                        !.pendingPoints = @ + 10 * (2 ^ (newPumpCount - 1))])
                  /\ status' = "Pumped"
                  /\ loading' = FALSE
                  /\ tasks' = Remove(tasks, i)
                  /\ transactionHistory' = <<"Pump">> \o transactionHistory
                  /\ UNCHANGED <<highScore, isPopping>>
             ELSE /\ ran' = Callback("pumpBalloon", "wallet_sendCalls",
                                     RevertMessage(LowerCase(last'.result)))
                  /\ pumpBalloon_catch(i, RevertMessage(LowerCase(last'.result)))
       \/ /\ NoCall
          /\ ran' = Callback("pumpBalloon", "wallet_sendCalls", WalletRefusal)
          /\ pumpBalloon_catch(i, WalletRefusal)

\* The callback of the pop timer.
pumpBalloon_popTimer(i) ==
    LET g == tasks[i].gameState[1] IN
    /\ tasks[i].await = PopTimer
    /\ isPopping' = FALSE
    /\ loading' = FALSE
    /\ IF g.currentRound < 5
       THEN /\ gameState' = Some([g EXCEPT !.currentRound = @ + 1,
                                           !.pumpCount = 0,
                                           !.pendingPoints = 0,
                                           !.isActive = TRUE])
            /\ status' = "New balloon!"
       ELSE /\ gameState' = Some([g EXCEPT !.isActive = FALSE])
            /\ status' = "Game Over!"
    /\ tasks' = Remove(tasks, i)
    /\ ran' = Callback("pumpBalloon", PopTimer, NoError)
    /\ UNCHANGED <<transactionHistory, highScore>>
    /\ NoCall

\* collectPoints of the page up to its await; the button is disabled while
\* loading and while nothing is pumped.
page_collectPoints ==
    /\ Active(gameState) /\ ~loading /\ gameState[1].pumpCount # 0
    /\ clicks < MaxClicks
    /\ loading' = TRUE
    /\ status' = "Banking your points..."
    /\ tasks' = Append(tasks, Task("wallet_sendCalls", "collectPoints"))
    /\ ran' = Callback("collectPoints", "click", NoError)
    /\ clicks' = clicks + 1
    /\ UNCHANGED <<transactionHistory, highScore, gameState, isPopping>>
    /\ NoCall

\* collectPoints that advances the local round although the bank failed.
collectPoints_catch_banksAnyway(i) ==
    LET g == tasks[i].gameState[1] IN
    /\ status' = "Collection failed"
    /\ loading' = FALSE
    /\ tasks' = Remove(tasks, i)
    /\ gameState' = Some([g EXCEPT !.currentRound = @ + 1,
                                   !.pumpCount = 0,
                                   !.pendingPoints = 0,
                                   !.totalScore = @ + g.pendingPoints])
    /\ UNCHANGED <<transactionHistory, highScore, isPopping>>

\* collectPoints whose failure path does not reset loading.
collectPoints_catch_keepsLoading(i) ==
    /\ status' = "Collection failed"
    /\ tasks' = Remove(tasks, i)
    /\ UNCHANGED <<transactionHistory, highScore, gameState, isPopping, loading>>

\* The catch and finally of collectPoints.
collectPoints_catch(i) ==
    /\ status' = "Collection failed"
    /\ loading' = FALSE
    /\ tasks' = Remove(tasks, i)
    /\ UNCHANGED <<transactionHistory, highScore, gameState, isPopping>>

\* wallet_sendCalls of collectPoints settled.
collectPoints_sent(i) ==
    LET g == tasks[i].gameState[1]
        newTotalScore == g.totalScore + g.pendingPoints
    IN
    /\ tasks[i].await = "wallet_sendCalls" /\ tasks[i].handler = "collectPoints"
    /\ \/ /\ collectPoints(SubAccount) /\ returned' = NoReturn /\ History
          /\ IF last'.result = "ok"
             THEN /\ ran' = Callback("collectPoints", "wallet_sendCalls", NoError)
                  /\ IF g.currentRound >= 5
                     THEN /\ gameState' = Some([g EXCEPT !.totalScore = newTotalScore,
                                                         !.isActive = FALSE])
                          /\ highScore' = IF newTotalScore > tasks[i].highScore
                                          THEN newTotalScore ELSE highScore
                          /\ status' = IF newTotalScore > tasks[i].highScore
                                       THEN "NEW HIGH SCORE" ELSE "Game Complete!"
                          /\ tasks' = [tasks EXCEPT ![i].await = "eth_call getLeaderboard"]
                          /\ UNCHANGED loading
                     ELSE /\ gameState' = Some([g EXCEPT !.currentRound = @ + 1,
                                                         !.pumpCount = 0,
                                                         !.pendingPoints = 0,
                                                         !.totalScore = newTotalScore])
                          /\ status' = "New balloon!"
                          /\ loading' = FALSE
                          /\ tasks' = Remove(tasks, i)
                          /\ UNCHANGED highScore
                  /\ transactionHistory' = <<"Collect">> \o transactionHistory
                  /\ UNCHANGED isPopping
             ELSE /\ ran' = Callback("collectPoints", "wallet_sendCalls",
                                     RevertMessage(LowerCase(last'.result)))
                  /\ collectPoints_catch(i)
       \/ /\ NoCall
          /\ ran' = Callback("collectPoints", "wallet_sendCalls", WalletRefusal)
          /\ collectPoints_catch(i)

\* fetchLeaderboard settled: it catches its own errors and drops the result
\* of the call; the finally of collectPoints follows.
collectPoints_fetchLeaderboard(i) ==
    /\ tasks[i].await = "eth_call getLeaderboard"
    /\ \E error \in {NoError, NetworkError} :
            ran' = Callback("collectPoints", "eth_call getLeaderboard", error)
    /\ NoCall
    /\ loading' = FALSE
    /\ tasks' = Remove(tasks, i)
    /\ UNCHANGED <<transactionHistory, highScore, gameState, isPopping, status>>

\* A pending task settles and the code after its await runs.
Settle ==
    \E i \in 1 .. Len(tasks) :
        /\ \/ startNewGame_chainId(i)
           \/ startNewGame_getCode(i)
           \/ startNewGame_checkGame(i)
           \/ startNewGame_sent(i)
           \/ startNewGame_statusTimer(i)
           \/ pumpBalloon_sent(i)
           \/ pumpBalloon_popTimer(i)
           \/ collectPoints_sent(i)
           \/ collectPoints_fetchLeaderboard(i)
        /\ UNCHANGED <<clicks, script>>

NextPage ==
    \/ startNewGame /\ UNCHANGED script
    \/ page_pumpBalloon /\ UNCHANGED script
    \/ page_collectPoints /\ UNCHANGED script
    \/ \E i \in 1 .. Len(tasks) : startNewGame_chainId(i) /\ UNCHANGED <<clicks, script>>
    \/ \E i \in 1 .. Len(tasks) : startNewGame_getCode(i) /\ UNCHANGED <<clicks, script>>
    \/ \E i \in 1 .. Len(tasks) : startNewGame_checkGame(i) /\ UNCHANGED <<clicks, script>>
    \/ \E i \in 1 .. Len(tasks) : startNewGame_sent(i) /\ UNCHANGED <<clicks, script>>
    \/ \E i \in 1 .. Len(tasks) : startNewGame_statusTimer(i) /\ UNCHANGED <<clicks, script>>
    \/ \E i \in 1 .. Len(tasks) : pumpBalloon_sent(i) /\ UNCHANGED <<clicks, script>>
    \/ \E i \in 1 .. Len(tasks) : pumpBalloon_popTimer(i) /\ UNCHANGED <<clicks, script>>
    \/ \E i \in 1 .. Len(tasks) : collectPoints_sent(i) /\ UNCHANGED <<clicks, script>>
    \/ \E i \in 1 .. Len(tasks) : collectPoints_fetchLeaderboard(i) /\ UNCHANGED <<clicks, script>>

\* The rounds in which the page is opened on a game that is under way.
ResumeRounds == {1, MAX_ROUNDS}

\* The page is opened on a new contract, or on one where the sub account
\* has a game under way: one pump banked in each earlier round and up to two
\* pumps pending in the current one.
InitPage ==
    \/ Init
    \/ \E r \in ResumeRounds, n \in 0 .. 2 :
        LET pending == IF n = 0 THEN 0 ELSE IF n = 1 THEN 10 ELSE 30
            banked == 10 * (r - 1)
            mine(x, zero) == [p \in Players |-> IF p = SubAccount THEN x ELSE zero]
        IN
        /\ games = mine(GameState(r, n, pending, banked, TRUE), ZeroGame)
        /\ highScores = [p \in Players |-> 0]
        /\ players = <<SubAccount>>
        /\ balance = ENTRY_FEE
        /\ last = IF n > 0 THEN Call("pumpBalloon", SubAccount, 0, "ok")
                  ELSE IF r > 1 THEN Call("collectPoints", SubAccount, 0, "ok")
                  ELSE Call("startGame", SubAccount, ENTRY_FEE, "ok")
        /\ emitted = IF n > 0 THEN <<BalloonPumped(SubAccount, r, n, earnedPoints(n))>>
                     ELSE IF r > 1 THEN <<PointsCollected(SubAccount, r - 1, banked)>>
                     ELSE <<GameStarted(SubAccount)>>
        /\ returned = NoReturn
        /\ started = 1
        /\ bankedSum = mine(banked, 0)
        /\ banks = mine(r - 1, 0)
        /\ owed = mine(pending, 0)
        /\ finals = [p \in Players |-> {}]
        /\ firstStarts = <<SubAccount>>
        /\ PageLoaded
        /\ ScriptIdle

SpecPage == InitPage /\ [][NextPage]_vars

\* Every request is answered and every timer fires.
SpecPageFair == SpecPage /\ WF_page(Settle)

----------------------------------------------------------------------------
\* The client-only game (src/newui/script.js): its variables, its two
\* buttons, its keyboard shortcuts and the timers it sets.  Sounds,
\* animations, particles and messages are not modelled.

\* let totalRounds = 5; the script never assigns it.
totalRounds == 5

\* The delays of the setTimeout calls that run game functions, in
\* milliseconds.
PopDelay == 300
CollectDelay == 1500
PoppedDelay == 2000
ResetDelay == 4000

\* Time passes in ticks of Tick milliseconds; every delay is a multiple.
Tick == 100

\* popThreshold = Math.floor(Math.random() * 18) + 8
MinThreshold == 8
ThresholdSpan == 18

\* The thresholds that are drawn here: the lowest ones of the script's range.
MaxThreshold == 9
Thresholds ==
    {t \in MinThreshold .. MinThreshold + ThresholdSpan - 1 : t <= MaxThreshold}

\* The clicks and key presses of one session.
MaxInputs == 3

\* A pending setTimeout; round is the round in which it was set (history).
Timer(fn, ms) == [fn |-> fn, delay |-> ms \div Tick, round |-> currentRound]

\* What `called` records.
Called(fn, by, round) == [fn |-> fn, by |-> by, round |-> round]

setRandomThreshold == popThreshold' \in Thresholds

\* function pumpBalloon(); rest is what stays pending of the timers.
script_pumpBalloon(rest) ==
    /\ IF isPopped
       THEN /\ timers' = rest
            /\ UNCHANGED <<pumpCount, roundScore, thresholdReached>>
       ELSE /\ pumpCount' = pumpCount + 1
            /\ roundScore' = pumpCount' * 10
            /\ timers' = IF pumpCount' >= popThreshold
                         THEN Append(rest, Timer("popBalloon", PopDelay))
                         ELSE rest
            /\ thresholdReached' = (thresholdReached \/ pumpCount' >= popThreshold)
    /\ UNCHANGED <<currentRound, totalScore, popThreshold, isPopped, pumpBtn,
                   collectBtn, roundStartScore, collects, gameEnded>>

\* function collectPoints()
script_collectPoints(rest) ==
    /\ IF isPopped \/ pumpCount = 0
       THEN /\ timers' = rest
            /\ UNCHANGED <<totalScore, collects>>
       ELSE /\ totalScore' = totalScore + roundScore
            /\ timers' = Append(rest, Timer("nextRound", CollectDelay))
            /\ collects' = collects + 1
    /\ UNCHANGED <<currentRound, pumpCount, roundScore, popThreshold, isPopped,
                   pumpBtn, collectBtn, roundStartScore, thresholdReached,
                   gameEnded>>

\* function popBalloon()
popBalloon(rest) ==
    /\ IF isPopped
       THEN /\ timers' = rest
            /\ UNCHANGED <<isPopped, pumpBtn, collectBtn>>
       ELSE /\ isPopped' = TRUE
            /\ pumpBtn' = [disabled |-> TRUE]
            /\ collectBtn' = [disabled |-> TRUE]
            /\ timers' = Append(rest, Timer("nextRound", PoppedDelay))
    /\ UNCHANGED <<currentRound, pumpCount, roundScore, totalScore, popThreshold,
                   roundStartScore, thresholdReached, collects, gameEnded>>

\* function endGame()
endGame(rest) ==
    /\ pumpBtn' = [disabled |-> TRUE]
    /\ collectBtn' = [disabled |-> TRUE]
    /\ timers' = Append(rest, Timer("resetGame", ResetDelay))
    /\ gameEnded' = TRUE
    /\ UNCHANGED <<currentRound, pumpCount, roundScore, totalScore, popThreshold,
                   isPopped, roundStartScore, thresholdReached, collects>>

\* function nextRound()
nextRound(rest) ==
    IF currentRound >= totalRounds
    THEN endGame(rest)
    ELSE /\ currentRound' = currentRound + 1
         /\ isPopped' = FALSE
         /\ pumpCount' = 0
         /\ roundScore' = 0
         /\ pumpBtn' = [disabled |-> FALSE]
         /\ collectBtn' = [disabled |-> FALSE]
         /\ setRandomThreshold
         /\ timers' = rest
         /\ roundStartScore' = totalScore
         /\ thresholdReached' = FALSE
         /\ collects' = 0
         /\ UNCHANGED <<totalScore, gameEnded>>

\* function resetGame()
resetGame(rest) ==
    /\ currentRound' = 1
    /\ totalScore' = 0
    /\ isPopped' = FALSE
    /\ pumpCount' = 0
    /\ roundScore' = 0
    /\ pumpBtn' = [disabled |-> FALSE]
    /\ collectBtn' = [disabled |-> FALSE]
    /\ setRandomThreshold
    /\ timers' = rest
    /\ roundStartScore' = 0
    /\ thresholdReached' = FALSE
    /\ collects' = 0
    /\ gameEnded' = FALSE

\* The click listener of the Pump button; a disabled button fires no click.
pumpBtn_click ==
    /\ inputs < MaxInputs
    /\ ~pumpBtn.disabled
    /\ script_pumpBalloon(timers)
    /\ called' = Called("pumpBalloon", "click", currentRound)
    /\ inputs' = inputs + 1

\* The click listener of the Collect button.
collectBtn_click ==
    /\ inputs < MaxInputs
    /\ ~collectBtn.disabled
    /\ script_collectPoints(timers)
    /\ called' = Called("collectPoints", "click", currentRound)
    /\ inputs' = inputs + 1

\* The keydown listener of the document.
keydown(code) ==
    /\ inputs < MaxInputs
    /\ IF code = "Space" /\ ~isPopped
       THEN script_pumpBalloon(timers)
       ELSE IF code = "Enter" /\ ~isPopped
       THEN script_collectPoints(timers)
       ELSE UNCHANGED <<currentRound, pumpCount, roundScore, totalScore,
                        popThreshold, isPopped, pumpBtn, collectBtn, timers,
                        roundStartScore, thresholdReached, collects, gameEnded>>
    /\ called' = Called("keydown", code, currentRound)
    /\ inputs' = inputs + 1

\* No timer is due: a tick of time passes.
TimePasses ==
    /\ timers # <<>>
    /\ \A i \in 1 .. Len(timers) : timers[i].delay > 0
    /\ timers' = [i \in 1 .. Len(timers) |->
                    [timers[i] EXCEPT !.delay = @ - 1]]
    /\ called' = Called("none", "none", 1)
    /\ UNCHANGED <<currentRound, pumpCount, roundScore, totalScore,
                   popThreshold, isPopped, pumpBtn, collectBtn, inputs,
                   roundStartScore, thresholdReached, collects, gameEnded>>

\* Timer i is the one that runs now: it is due, and it is the oldest of the
\* timers that are due.
Due(i) ==
    /\ timers[i].delay = 0
    /\ \A j \in 1 .. i - 1 : timers[j].delay > 0

timeout_popBalloon(i) ==
    /\ Due(i)
    /\ timers[i].fn = "popBalloon"
    /\ popBalloon(Remove(timers, i))
    /\ called' = Called("popBalloon", "timer", timers[i].round)
    /\ UNCHANGED inputs

timeout_nextRound(i) ==
    /\ Due(i)
    /\ timers[i].fn = "nextRound"
    /\ nextRound(Remove(timers, i))
    /\ called' = Called("nextRound", "timer", timers[i].round)
    /\ UNCHANGED inputs

timeout_resetGame(i) ==
    /\ Due(i)
    /\ timers[i].fn = "resetGame"
    /\ resetGame(Remove(timers, i))
    /\ called' = Called("resetGame", "timer", timers[i].round)
    /\ UNCHANGED inputs

\* The contract and the web page take no part in the client-only game.
elsewhere == <<games, highScores, players, balance, last, emitted, returned,
               started, bankedSum, banks, owed, finals, firstStarts, page>>

NextScript ==
    \/ pumpBtn_click /\ UNCHANGED elsewhere
    \/ collectBtn_click /\ UNCHANGED elsewhere
    \/ keydown("Space") /\ UNCHANGED elsewhere
    \/ keydown("Enter") /\ UNCHANGED elsewhere
    \/ TimePasses /\ UNCHANGED elsewhere
    \/ \E i \in 1 .. Len(timers) : timeout_popBalloon(i) /\ UNCHANGED elsewhere
    \/ \E i \in 1 .. Len(timers) : timeout_nextRound(i) /\ UNCHANGED elsewhere
    \/ \E i \in 1 .. Len(timers) : timeout_resetGame(i) /\ UNCHANGED elsewhere

\* The rounds in which a session is taken up.
StartRounds == {1, totalRounds}

\* The pumps already made in that round: none, or one less than the lowest
\* threshold.
StartPumps == {0, MinThreshold - 1}

\* A session is taken up in round r after n pumps: the earlier rounds of the
\* game have all popped, so the total is 0, and the n pumps of round r have
\* not reached the threshold, so no timer is pending.
InitScript ==
    /\ Deployed
    /\ PageLoaded
    /\ \E r \in StartRounds, t \in Thresholds, n \in StartPumps :
        /\ currentRound = r
        /\ pumpCount = n
        /\ roundScore = n * 10
        /\ totalScore = 0
        /\ popThreshold = t
        /\ isPopped = FALSE
        /\ pumpBtn = [disabled |-> FALSE]
        /\ collectBtn = [disabled |-> FALSE]
        /\ timers = <<>>
        /\ called = IF n > 0 THEN Called("pumpBalloon", "click", r)
                    ELSE IF r = 1 THEN Called("initGame", "load", 1)
                    ELSE Called("nextRound", "timer", r - 1)
        /\ inputs = 0
        /\ roundStartScore = 0
        /\ thresholdReached = FALSE
        /\ collects = 0
        /\ gameEnded = FALSE

SpecScript == InitScript /\ [][NextScript]_vars

----------------------------------------------------------------------------
\* Properties.  In a step of Next, last' is the call the step performs.

\* The step is a call of function op by player p.
IsCall(op, p) == last'.op = op /\ last'.caller = p

\* The last call was function op, sent by a player, and ended with res.
LastWas(op, res) == last.op = op /\ last.result = res /\ last.caller \in Players

\* C1: startGame by a player whose game is active, whatever the other fields
\* of the game are, reverts with 'Game already active' and leaves games,
\* highScores and players as they were.
C1_ActiveStartRejected ==
    [][\A p \in Players :
        (IsCall("startGame", p) /\ games[p].isActive)
            => /\ last'.result = "Game already active"
               /\ UNCHANGED <<games, highScores, players>>]_vars

\* A rejected startGame of a player in the middle of a game with points.
C1_Witness ==
    /\ LastWas("startGame", "Game already active")
    /\ games[last.caller].isActive
    /\ games[last.caller].currentRound > 1
    /\ games[last.caller].pumpCount > 0
    /\ games[last.caller].totalScore > 0

\* C2 as stated: startGame with a value other than ENTRY_FEE reverts with
\* 'Incorrect entry fee' for every player and changes nothing.
C2_WrongFeeAlwaysIncorrectFee ==
    [][\A p \in Players :
        (IsCall("startGame", p) /\ last'.value # ENTRY_FEE)
            => /\ last'.result = "Incorrect entry fee"
               /\ UNCHANGED <<games, highScores, players, balance>>]_vars

\* C2 amended: startGame with a value other than ENTRY_FEE reverts, with
\* 'Incorrect entry fee' when the player has no active game and with
\* 'Game already active' when the player has one, and leaves games,
\* highScores, players and the balance unchanged; a successful startGame
\* carries exactly ENTRY_FEE.
C2_WrongFeeRejected ==
    [][\A p \in Players :
        /\ (IsCall("startGame", p) /\ last'.value # ENTRY_FEE)
            => /\ last'.result = IF games[p].isActive
                                 THEN "Game already active"
                                 ELSE "Incorrect entry fee"
               /\ UNCHANGED <<games, highScores, players, balance>>
        /\ (IsCall("startGame", p) /\ last'.result = "ok")
            => last'.value = ENTRY_FEE]_vars

\* An overpaying startGame of a player without an active game was rejected
\* while the contract held ETH.
C2_Witness ==
    /\ LastWas("startGame", "Incorrect entry fee")
    /\ last.value > ENTRY_FEE
    /\ ~games[last.caller].isActive
    /\ balance > 0

\* C3: a successful startGame by p sets games[p] to round 1, no pumps, no
\* pending points, score 0, active, and leaves highScores[p] unchanged.
C3_StartInitialises ==
    [][\A p \in Players :
        (IsCall("startGame", p) /\ last'.result = "ok")
            => /\ games'[p] = GameState(1, 0, 0, 0, TRUE)
               /\ highScores'[p] = highScores[p]]_vars

\* A new game has just started for a player who completed one before.
C3_Witness ==
    /\ LastWas("startGame", "ok")
    /\ highScores[last.caller] > 0
    /\ games[last.caller] = GameState(1, 0, 0, 0, TRUE)

\* C4: a successful pumpBalloon takes pumpCount from k-1 to k, adds
\* 10 * 2^(k-1) to pendingPoints (10, then 20) and leaves currentRound,
\* totalScore, isActive and highScores unchanged.
C4_PumpPoints ==
    [][\A p \in Players :
        (IsCall("pumpBalloon", p) /\ last'.result = "ok")
            => LET k == games'[p].pumpCount IN
               /\ k = games[p].pumpCount + 1
               /\ games'[p].pendingPoints
                    = games[p].pendingPoints + 10 * 2 ^ (k - 1)
               /\ (k = 1 => games'[p].pendingPoints = 10)
               /\ (k = 2 => games'[p].pendingPoints = 30)
               /\ games'[p].currentRound = games[p].currentRound
               /\ games'[p].totalScore = games[p].totalScore
               /\ games'[p].isActive = games[p].isActive
               /\ highScores' = highScores]_vars

\* The second pump of a later round has just succeeded.
C4_Witness ==
    /\ LastWas("pumpBalloon", "ok")
    /\ games[last.caller].pumpCount = 2
    /\ games[last.caller].pendingPoints = 30
    /\ games[last.caller].totalScore > 0

\* C5: pumpCount never exceeds 2; pumpBalloon at pumpCount = 2 reverts and
\* changes nothing; and a pumpCount of 2 changes only by a successful
\* collectPoints or startGame of that player, which sets it to 0.
C5_PumpCap ==
    /\ [](\A p \in Players : games[p].pumpCount <= 2)
    /\ [][\A p \in Players :
            /\ (IsCall("pumpBalloon", p) /\ games[p].pumpCount = 2)
                => /\ last'.result # "ok"
                   /\ UNCHANGED storage
            /\ (games[p].pumpCount = 2 /\ games'[p].pumpCount # 2)
                => /\ last'.op \in {"collectPoints", "startGame"}
                   /\ last'.caller = p
                   /\ last'.result = "ok"
                   /\ games'[p].pumpCount = 0]_vars

\* A third pump was rejected in an active game.
C5_Witness ==
    /\ LastWas("pumpBalloon", "Max 2 pumps per round! Collect points to continue.")
    /\ games[last.caller].isActive
    /\ games[last.caller].pumpCount = 2

\* C6: after two successful pumps of a round a third pumpBalloon succeeds
\* and brings pendingPoints to 70, and a fourth brings it to 150.
C6_ThirdAndFourthPump ==
    [][\A p \in Players :
        (/\ IsCall("pumpBalloon", p)
         /\ games[p].isActive
         /\ games[p].currentRound <= MAX_ROUNDS
         /\ games[p].pumpCount \in {2, 3})
            => /\ last'.result = "ok"
               /\ games'[p].pumpCount = games[p].pumpCount + 1
               /\ games'[p].pendingPoints
                    = IF games[p].pumpCount = 2 THEN 70 ELSE 150]_vars

\* The last call popped the balloon of p: BalloonPopped was emitted for p
\* and p's round has no pending points left.
Popped(p) ==
    /\ \E i \in 1 .. Len(emitted) :
            emitted[i].event = "BalloonPopped" /\ emitted[i].player = p
    /\ games[p].pendingPoints = 0

\* C7: the balloon can pop: when a player's next pump is the third of the
\* round (or a later one), a pumpBalloon call that pops the balloon and
\* leaves totalScore as it was is possible.
C7_PumpCanPop ==
    \A p \in Players :
        (games[p].isActive /\ games[p].pumpCount + 1 >= MIN_PUMPS_BEFORE_POP)
            => ENABLED (/\ pumpBalloon(p)
                        /\ returned' = NoReturn
                        /\ History
                        /\ Popped(p)'
                        /\ games'[p].totalScore = games[p].totalScore)

\* No call ever emits BalloonPopped.
C7_NeverPops ==
    \A i \in 1 .. Len(emitted) : emitted[i].event # "BalloonPopped"

\* C8: collectPoints in an active game with pumpCount = 0 reverts with
\* 'Must pump at least once' and changes nothing, in particular right after
\* the player's successful startGame or successful collectPoints.
C8_NothingToBank ==
    [][\A p \in Players :
        /\ (IsCall("collectPoints", p) /\ games[p].isActive /\ games[p].pumpCount = 0)
            => /\ last'.result = "Must pump at least once"
               /\ emitted' = <<>>
               /\ UNCHANGED storage
        /\ (/\ IsCall("collectPoints", p)
            /\ last.op \in {"startGame", "collectPoints"}
            /\ last.caller = p
            /\ last.result = "ok"
            /\ games[p].isActive)
            => /\ last'.result = "Must pump at least once"
               /\ UNCHANGED storage]_vars

\* A bank without a pump was rejected in a round that follows a bank.
C8_Witness ==
    /\ LastWas("collectPoints", "Must pump at least once")
    /\ games[last.caller].isActive
    /\ games[last.caller].currentRound > 1
    /\ games[last.caller].totalScore > 0

\* C9: a successful collectPoints in round r < 5 with pendingPoints = pend
\* and totalScore = t leaves totalScore = t + pend, currentRound = r + 1,
\* pumpCount = 0, pendingPoints = 0, isActive, and highScores unchanged.
C9_BankAdvances ==
    [][\A p \in Players :
        (/\ IsCall("collectPoints", p)
         /\ last'.result = "ok"
         /\ games[p].currentRound < MAX_ROUNDS)
            => /\ games'[p] = GameState(games[p].currentRound + 1, 0, 0,
                                        games[p].totalScore + games[p].pendingPoints,
                                        TRUE)
               /\ highScores' = highScores]_vars

\* A bank has just moved a player with earlier banked points to a later round.
C9_Witness ==
    /\ LastWas("collectPoints", "ok")
    /\ games[last.caller].isActive
    /\ games[last.caller].currentRound > 2
    /\ games[last.caller].totalScore >= 40
    /\ games[last.caller].pumpCount = 0

\* C10: a successful collectPoints in round 5 makes the game inactive; while
\* it is inactive every pumpBalloon and collectPoints of that player reverts
\* and changes nothing; and it becomes active again only by that player's
\* successful startGame.
C10_CompletedGameIsClosed ==
    [][\A p \in Players :
        /\ (/\ IsCall("collectPoints", p)
            /\ last'.result = "ok"
            /\ games[p].currentRound = MAX_ROUNDS)
            => ~games'[p].isActive
        /\ (/\ games[p].currentRound = MAX_ROUNDS
            /\ ~games[p].isActive
            /\ (IsCall("pumpBalloon", p) \/ IsCall("collectPoints", p)))
            => /\ last'.result # "ok"
               /\ emitted' = <<>>
               /\ UNCHANGED storage
        /\ (~games[p].isActive /\ games'[p].isActive)
            => IsCall("startGame", p) /\ last'.result = "ok"]_vars

\* A bank was rejected after the game was completed, with the pumps of the
\* last round still recorded.
C10_Witness ==
    /\ LastWas("collectPoints", "No active game")
    /\ games[last.caller].currentRound = MAX_ROUNDS
    /\ games[last.caller].pumpCount > 0
    /\ ~games[last.caller].isActive

\* The last step emitted event e.
Emitted(e) == \E i \in 1 .. Len(emitted) : emitted[i] = e

\* The step emits event e.
Emits(e) == \E i \in 1 .. Len(emitted') : emitted'[i] = e

\* The largest element of a non-empty set of numbers.
MaxOf(S) == CHOOSE x \in S : \A y \in S : y <= x

\* C11: at every point of a game totalScore is the sum of the pendingPoints
\* that the collectPoints calls of that game banked, and the call that ends
\* the game emits GameCompleted with that sum as finalScore.
C11_TotalIsSumOfBanks ==
    /\ [](\A p \in Players : games[p].totalScore = bankedSum[p])
    /\ [][\A p \in Players :
            (games[p].isActive /\ ~games'[p].isActive)
                => /\ games'[p].totalScore = bankedSum[p] + games[p].pendingPoints
                   /\ Emits(GameCompleted(p, bankedSum'[p]))]_vars

\* A game has just been completed with rounds of one pump and of two pumps.
C11_Witness ==
    /\ LastWas("collectPoints", "ok")
    /\ ~games[last.caller].isActive
    /\ banks[last.caller] = 5
    /\ games[last.caller].totalScore = 90
    /\ Emitted(GameCompleted(last.caller, 90))

\* C12: highScores[p] never decreases; it changes only in the collectPoints
\* call that banks round 5 of p's game, only when the final totalScore is
\* greater than the stored value, and then to that score; it is always the
\* largest final totalScore of p's completed games, 0 if there is none.
C12_HighScoreIsBest ==
    /\ [](\A p \in Players : highScores[p] = MaxOf(finals[p] \cup {0}))
    /\ [][\A p \in Players :
            /\ highScores'[p] >= highScores[p]
            /\ highScores'[p] # highScores[p]
                => /\ IsCall("collectPoints", p)
                   /\ last'.result = "ok"
                   /\ games[p].currentRound = MAX_ROUNDS
                   /\ games'[p].totalScore > highScores[p]
                   /\ highScores'[p] = games'[p].totalScore]_vars

\* A player has completed a second game with a lower score than the first.
C12_Witness ==
    /\ LastWas("collectPoints", "ok")
    /\ ~games[last.caller].isActive
    /\ Cardinality(finals[last.caller]) = 2
    /\ games[last.caller].totalScore < highScores[last.caller]

\* C13: totalScore increases only in a successful collectPoints of the
\* player, and in a step that takes the player's pendingPoints from a
\* non-zero value to 0 that value is added to totalScore, or the step is a
\* startGame over the record of a finished game whose pumps were all banked.
C13_NoPointsLost ==
    [][\A p \in Players :
        /\ games'[p].totalScore > games[p].totalScore
            => IsCall("collectPoints", p) /\ last'.result = "ok"
        /\ (games[p].pendingPoints > 0 /\ games'[p].pendingPoints = 0)
            => \/ /\ IsCall("collectPoints", p)
                  /\ games'[p].totalScore
                        = games[p].totalScore + games[p].pendingPoints
               \/ /\ IsCall("startGame", p)
                  /\ ~games[p].isActive
                  /\ owed[p] = 0]_vars

\* A new game has overwritten the record of a finished game that still held
\* the pending points of its last round.
C13_Witness ==
    /\ LastWas("startGame", "ok")
    /\ finals[last.caller] # {}
    /\ games[last.caller].pendingPoints = 0
    /\ owed[last.caller] = 0

\* C14: currentRound is 0 until the player's first successful startGame and
\* in 1..5 from then on; a step other than a successful startGame leaves it
\* or adds 1; pumpBalloon never fails with 'Game completed'.
C14_RoundRange ==
    /\ [](\A p \in Players :
            /\ games[p].currentRound \in 0 .. 5
            /\ games[p].currentRound = 0 <=> (\A i \in 1 .. Len(players) : players[i] # p))
    /\ [](last.result # "Game completed")
    /\ [][\A p \in Players :
            /\ (games[p].currentRound = 0 /\ games'[p].currentRound # 0)
                => IsCall("startGame", p) /\ last'.result = "ok"
            /\ games[p].currentRound >= 1 => games'[p].currentRound >= 1
            /\ ~(IsCall("startGame", p) /\ last'.result = "ok")
                => \/ games'[p].currentRound = games[p].currentRound
                   \/ games'[p].currentRound = games[p].currentRound + 1]_vars

\* A pump has succeeded in round 5.
C14_Witness ==
    /\ LastWas("pumpBalloon", "ok")
    /\ games[last.caller].currentRound = 5
    /\ games[last.caller].isActive

\* C15: GameCompleted is emitted exactly by the fifth successful
\* collectPoints of a game, in the same call as that call's PointsCollected
\* and after it; a game that has been completed emits it once.
C15_CompletedByFifthBank ==
    /\ [](\A p \in Players :
            /\ banks[p] <= 5
            /\ (games[p].currentRound > 0 /\ ~games[p].isActive) <=> banks[p] = 5)
    /\ [][\A p \in Players :
            /\ (\E i \in 1 .. Len(emitted') :
                    emitted'[i].event = "GameCompleted" /\ emitted'[i].player = p)
                <=> (IsCall("collectPoints", p) /\ last'.result = "ok" /\ banks'[p] = 5)
            /\ (IsCall("collectPoints", p) /\ last'.result = "ok" /\ banks'[p] = 5)
                => /\ games[p].isActive /\ ~games'[p].isActive
                   /\ emitted' = << PointsCollected(p, 5, games'[p].totalScore),
                                    GameCompleted(p, games'[p].totalScore) >>
            /\ (IsCall("collectPoints", p) /\ last'.result = "ok" /\ banks'[p] < 5)
                => /\ games'[p].isActive
                   /\ emitted' = << PointsCollected(p, banks'[p], games'[p].totalScore) >>]_vars

\* The fifth bank of a game has just emitted PointsCollected and GameCompleted.
C15_Witness ==
    /\ LastWas("collectPoints", "ok")
    /\ banks[last.caller] = 5
    /\ Len(emitted) = 2
    /\ emitted[1].event = "PointsCollected"
    /\ emitted[2].event = "GameCompleted"

\* C16: every successful collectPoints, the one that banks round 5 included,
\* leaves pumpCount = 0 and pendingPoints = 0, so both are 0 whenever the
\* game is not active.
C16_BankResetsRound ==
    /\ [][\A p \in Players :
            (IsCall("collectPoints", p) /\ last'.result = "ok")
                => games'[p].pumpCount = 0 /\ games'[p].pendingPoints = 0]_vars
    /\ [](\A p \in Players :
            ~games[p].isActive
                => games[p].pumpCount = 0 /\ games[p].pendingPoints = 0)

\* C17: a player's pumpCount decreases only in that player's successful
\* collectPoints or startGame; no pumpBalloon, rejected call, withdraw or
\* call of another player lowers it.
C17_PumpCountResetOnlyAtBoundary ==
    [][\A p \in Players :
        games'[p].pumpCount < games[p].pumpCount
            => /\ IsCall("collectPoints", p) \/ IsCall("startGame", p)
               /\ last'.result = "ok"
               /\ games'[p].pumpCount = 0]_vars

\* A bank has reset the caller's pumps while the other player keeps two.
C17_Witness ==
    /\ LastWas("collectPoints", "ok")
    /\ games[last.caller].isActive
    /\ games[last.caller].pumpCount = 0
    /\ \E q \in Players : q # last.caller /\ games[q].pumpCount = 2

\* C18: a call of startGame, pumpBalloon or collectPoints that is rejected
\* leaves games, highScores and players unchanged and emits nothing; one that
\* succeeds changes the caller's game and emits an event; pumpBalloon and
\* collectPoints of a player who never started a game are rejected with
\* 'No active game'.
C18_AppliedOrRejected ==
    [][\A p \in Players :
        (IsCall("startGame", p) \/ IsCall("pumpBalloon", p) \/ IsCall("collectPoints", p))
            => /\ last'.result # "ok"
                    => UNCHANGED <<games, highScores, players>> /\ emitted' = <<>>
               /\ last'.result = "ok"
                    => games'[p] # games[p] /\ emitted' # <<>>
               /\ (games[p].currentRound = 0 /\ ~IsCall("startGame", p))
                    => last'.result = "No active game"]_vars

\* A player who never started a game had a pumpBalloon rejected while the
\* other player was in a game.
C18_Witness ==
    /\ LastWas("pumpBalloon", "No active game")
    /\ games[last.caller] = ZeroGame
    /\ \E q \in Players : games[q].isActive /\ games[q].pendingPoints > 0

\* The addresses in the players list.
Registered == {players[i] : i \in 1 .. Len(players)}

\* The place of a registered address in the players list.
Position(a) == CHOOSE i \in 1 .. Len(players) : players[i] = a

\* C19: getLeaderboard returns min(10, number of registered players) pairs,
\* each a distinct registered player with that player's highScores value,
\* in non-increasing order of score, and no registered player left out has a
\* higher score than a returned one.
C19_LeaderboardTopTen ==
    last.op = "getLeaderboard" =>
        LET top == returned.value.topPlayers
            scores == returned.value.topScores
            n == Len(top)
        IN  /\ n = IF Len(players) < 10 THEN Len(players) ELSE 10
            /\ Len(scores) = n
            /\ \A i \in 1 .. n :
                    top[i] \in Registered /\ scores[i] = highScores[top[i]]
            /\ \A i, j \in 1 .. n : i # j => top[i] # top[j]
            /\ \A i \in 1 .. n - 1 : scores[i] >= scores[i + 1]
            /\ \A q \in Registered :
                    (\A i \in 1 .. n : top[i] # q)
                        => \A i \in 1 .. n : highScores[q] <= scores[i]

\* The leaderboard of eleven players was returned: ten entries, scores of 50
\* and of 0 among them, and the first registered player is not first.
C19_Witness ==
    /\ last.op = "getLeaderboard"
    /\ Len(players) = 11
    /\ Len(returned.value.topPlayers) = 10
    /\ returned.value.topScores[1] = 50
    /\ returned.value.topScores[10] = 0
    /\ returned.value.topPlayers[1] # players[1]

\* C20: in the result of getLeaderboard players with equal high scores are
\* in registration order.
C20_TiesInRegistrationOrder ==
    last.op = "getLeaderboard" =>
        LET top == returned.value.topPlayers
            scores == returned.value.topScores
        IN  \A i, j \in 1 .. Len(top) :
                (i < j /\ scores[i] = scores[j])
                    => Position(top[i]) < Position(top[j])

\* C21: the players list holds exactly the callers of the successful
\* startGame calls, each once, in the order of their first successful call;
\* a later game of a registered player appends nothing.
C21_PlayersAreFirstStarts == players = firstStarts

\* A player whose first game is completed has started a second game, and the
\* list still holds that player once.
C21_Witness ==
    /\ LastWas("startGame", "ok")
    /\ finals[last.caller] # {}
    /\ players = <<last.caller>>

C23_EventsCarryPlayerRoundPoints ==
    [][\A p \in Players : last'.caller = p =>
            LET ok == last'.result = "ok"
                points == {"points", "totalScore", "lostPoints", "finalScore"}
            IN
            /\ (ok /\ last'.op \in {"startGame", "pumpBalloon", "collectPoints"}) =>
                    /\ emitted' # <<>>
                    /\ \A i \in 1 .. Len(emitted') :
                            /\ emitted'[i].player = p
                            /\ {"player", "round"} \subseteq EventFields(emitted'[i])
                            /\ last'.op # "startGame" =>
                                    EventFields(emitted'[i]) \cap points # {}
            /\ (games[p].isActive /\ ~games'[p].isActive) =>
                    \E i \in 1 .. Len(emitted') :
                            emitted'[i].event = "GameCompleted"
            /\ ~ok => emitted' = <<>>]_vars

\* The address q has never started a game.
NoHistory(q) == \A i \in 1 .. Len(firstStarts) : firstStarts[i] # q

\* Each of the three view functions can be called for every address.
ViewsEnabled ==
    /\ \A q \in Players : ENABLED getGameState(q)
    /\ \A q \in Players : ENABLED getHighScore(q)
    /\ ENABLED getLeaderboard

\* C24: in every reachable state each of the three view functions can be
\* called for every address; the call succeeds and leaves the storage as it
\* is, and for an address without history getGameState returns
\* (0, 0, 0, 0, false) and getHighScore returns 0.  (withdraw has no
\* precondition and two possible callers, so every reachable state is left
\* by a withdraw step, and ViewsEnabled is evaluated in every reachable
\* state.)
C24_ViewsArePureReads ==
    [][/\ last'.op = "withdraw" => ViewsEnabled
       /\ last'.op \in {"getGameState", "getHighScore", "getLeaderboard"} =>
            /\ last'.result = "ok"
            /\ storage' = storage
            /\ emitted' = <<>>
            /\ \A q \in Players :
                    (NoHistory(q) /\ returned'.of = q) =>
                        /\ last'.op = "getGameState" =>
                                returned'.value = <<0, 0, 0, 0, FALSE>>
                        /\ last'.op = "getHighScore" => returned'.value = 0]_vars

\* getGameState was called for bob, who never played, while alice has a
\* game with pending points.
C24_Witness ==
    /\ last.op = "getGameState"
    /\ returned = Return("bob", <<0, 0, 0, 0, FALSE>>)
    /\ NoHistory("bob")
    /\ games["alice"].pendingPoints = 30

\* C25: when no await and no timer of the page is pending after one of its
\* game handlers ran, the local gameState equals the contract's GameState of
\* the sub account.
C25_LocalStateInSync ==
    (/\ tasks = <<>>
     /\ ran.handler \in {"startNewGame", "pumpBalloon", "collectPoints"}
     /\ gameState # Null)
        => gameState[1] = games[SubAccount]

\* The wallet_sendCalls requests that are not settled.
InFlight == {i \in 1 .. Len(tasks) : tasks[i].await = "wallet_sendCalls"}

\* C26: the page never has two game transactions in flight, and loading is
\* true as long as one is.
C26_OneTransactionInFlight ==
    /\ Cardinality(InFlight) <= 1
    /\ InFlight # {} => loading

\* The step settles the page's pumpBalloon request with a revert of the
\* contract.
PumpReverted ==
    /\ ran'.handler = "pumpBalloon" /\ ran'.await = "wallet_sendCalls"
    /\ last'.op = "pumpBalloon" /\ last'.result # "ok"
    /\ ran'.result = RevertMessage(LowerCase(last'.result))

\* The step takes the pop path of the page's pumpBalloon.
PopPath ==
    /\ ran'.handler = "pumpBalloon" /\ ran'.await = "wallet_sendCalls"
    /\ status' = "BALLOON POPPED!"

\* C27: a pump the contract rejects without popping the balloon is reported
\* as a pump failure and leaves the local gameState as it is; the page takes
\* the pop path only when the contract popped the balloon.
C27_RejectedPumpIsFailure ==
    [][/\ (PumpReverted /\ ~Popped(SubAccount)') =>
            /\ status' = "Pump failed"
            /\ gameState' = gameState
            /\ ~isPopping'
       /\ PopPath => Popped(SubAccount)']_vars

\* C28: while a pop timer is pending, loading is true.
C28_LoadingDuringPop ==
    (\E i \in 1 .. Len(tasks) : tasks[i].await = PopTimer) => loading

\* C29: whenever loading is true it becomes false again.
C29_LoadingIsReset == loading ~> ~loading

\* loading is false again after a pump ran into the pop path and its timer
\* has fired.
C29_Witness ==
    /\ ~loading
    /\ tasks = <<>>
    /\ ran = Callback("pumpBalloon", PopTimer, NoError)
    /\ clicks >= 3

\* C30: when the pop timer fires, the local totalScore stays what it was,
\* pumpCount and pendingPoints become 0 and currentRound grows by one (or,
\* in round 5, isActive becomes false).
C30_PopTimerKeepsTotal ==
    [][ran'.await = PopTimer =>
            LET before == gameState[1]
                after == gameState'[1]
            IN  /\ after.totalScore = before.totalScore
                /\ after.pumpCount = 0
                /\ after.pendingPoints = 0
                /\ \/ after.currentRound = before.currentRound + 1
                   \/ /\ before.currentRound = 5
                      /\ after.currentRound = 5
                      /\ ~after.isActive]_vars

\* The step settles the page's startGame or collectPoints request with an
\* error.
FailedTransaction ==
    /\ ran'.handler \in {"startNewGame", "collectPoints"}
    /\ ran'.await = "wallet_sendCalls"
    /\ ran'.result # NoError

\* The status lines that report an error of startNewGame or collectPoints.
ErrorStatus ==
    {"Insufficient funds!", "Transaction reverted.", "Transaction rejected",
     "You already have an active game!", "Failed", "Collection failed"}

\* C31: when the startGame or collectPoints transaction of the page fails,
\* the local gameState, highScore and transactionHistory stay as they are
\* and the status line shows an error.
C31_FailedTransactionChangesNothing ==
    [][FailedTransaction =>
            /\ gameState' = gameState
            /\ highScore' = highScore
            /\ transactionHistory' = transactionHistory
            /\ status' \in ErrorStatus]_vars

\* A bank of pending points has failed.
C31_Witness ==
    /\ ran.handler = "collectPoints"
    /\ ran.await = "wallet_sendCalls"
    /\ ran.result # NoError
    /\ status = "Collection failed"
    /\ Active(gameState)
    /\ gameState[1].pendingPoints > 0

\* C32: when startNewGame's getGameState call reports an active game of the
\* sub account, the handler ends without sending a transaction (the balance
\* of the contract stays as it is) and the local gameState becomes the
\* contract's GameState, with isActive = true.
C32_ActiveGameIsLoaded ==
    [][(/\ ran'.handler = "startNewGame"
        /\ ran'.await = "eth_call getGameState"
        /\ ran'.result = NoError
        /\ games[SubAccount].isActive) =>
            /\ gameState' = Some(games[SubAccount])
            /\ gameState'[1].isActive
            /\ Len(tasks') = Len(tasks) - 1
            /\ \A i \in 1 .. Len(tasks') :
                    (tasks'[i].handler = "startNewGame"
                        /\ tasks'[i].await = "wallet_sendCalls")
                    => \E j \in 1 .. Len(tasks) : tasks[j] = tasks'[i]
            /\ balance' = balance]_vars

\* A game with two pumps pending was loaded into the page.
C32_Witness ==
    /\ ran = Callback("startNewGame", "eth_call getGameState", NoError)
    /\ tasks = <<>>
    /\ gameState = Some(games[SubAccount])
    /\ gameState[1].pumpCount = 2
    /\ balance = ENTRY_FEE

\* The step is a click or a key press.
IsInput == called'.by \in {"click", "Space", "Enter"}

\* C33: in the client-only game, a round in which a pump has brought
\* pumpCount to popThreshold or above adds nothing to totalScore: the total
\* is what it was when the round began.
C33_PoppedRoundScoresNothing ==
    thresholdReached => totalScore = roundStartScore

\* C34: in the client-only game, a round is banked at most once: totalScore
\* grows by roundScore at most one time between two round changes.
C34_BankedAtMostOnce ==
    collects <= 1

\* C35: in the client-only game, every nextRound call ends the round in which
\* its timer was set, none runs after endGame, and resetGame runs only after
\* an endGame that no resetGame has followed yet; so no round is skipped and
\* endGame and resetGame run once per game.
C35_OneNextRoundPerRound ==
    [][/\ called'.fn = "nextRound" =>
            /\ called'.round = currentRound
            /\ ~gameEnded
       /\ called'.fn = "resetGame" => gameEnded]_vars

\* C36: in the client-only game, between endGame and the resetGame that
\* follows it, a click or a key press changes none of pumpCount, roundScore,
\* totalScore and currentRound and sets no timer.
C36_NoInputAfterEndGame ==
    [][(gameEnded /\ IsInput) =>
            /\ UNCHANGED <<pumpCount, roundScore, totalScore, currentRound>>
            /\ timers' = timers]_vars

====
